---- MODULE Spec2Model ----
(***************************************************************************)
(* Model of the trace-and-enrich pipeline of api/trace.php: one HTTP      *)
(* request is validated, handed to the platform's path-discovery tool,    *)
(* its text output is parsed into an address list, every address is       *)
(* looked up at the geolocation service, and one JSON envelope is         *)
(* written.  Strings are sequences of one-character strings, so that      *)
(* trim(), empty() and the regular expressions are computed character by  *)
(* character as PHP computes them.  The page script js/app.js is the      *)
(* second part: the submit handler, the map markers and the simulated     *)
(* progress of the loading indicator.                                     *)
(***************************************************************************)
EXTENDS Integers, Sequences, FiniteSets, TLC

VARIABLES
    get,          \* $_GET: [isset |-> is 'target' present, target |-> its raw value]
    phpMajor,     \* major version of the PHP runtime serving the request (7 or 8)
    pc,           \* position of the script
    target,       \* $target
    traceResult,  \* $traceResult, the array executeTraceroute returns
    ips,          \* $ips
    hops,         \* $hops, as built inside getGeolocations
    calls,        \* external calls made so far, in order: exec, lookup, usleep
    buffer,       \* content of the output buffer opened by ob_start()
    sent          \* what has been sent to the client

\* the page script js/app.js
VARIABLES
    handler,           \* position of handleTraceSubmit: Idle, or the await it is at
    markers,           \* markers
    polylines,         \* polylines
    currentTraceData,  \* currentTraceData
    progressInterval,  \* whether the interval of progressInterval is active
    progress,          \* progress of the interval callback, in tenths of a percent
    dom                \* what the script has written to the elements of the page

server == <<get, phpMajor, pc, target, traceResult, ips, hops, calls, buffer, sent>>

client ==
    <<handler, markers, polylines, currentTraceData, progressInterval, progress, dom>>

vars == <<get, phpMajor, pc, target, traceResult, ips, hops, calls, buffer, sent,
          handler, markers, polylines, currentTraceData, progressInterval,
          progress, dom>>

----------------------------------------------------------------------------
(* Characters *)

Digit == {"0", "1", "2", "3", "4", "5", "6", "7", "8", "9"}

Lower == {"a", "b", "c", "d", "e", "f", "g", "h", "i", "j", "k", "l", "m",
          "n", "o", "p", "q", "r", "s", "t", "u", "v", "w", "x", "y", "z"}

Upper == {"A", "B", "C", "D", "E", "F", "G", "H", "I", "J", "K", "L", "M",
          "N", "O", "P", "Q", "R", "S", "T", "U", "V", "W", "X", "Y", "Z"}

\* [0-9a-fA-F]
HexDigit == Digit \cup {"a", "b", "c", "d", "e", "f", "A", "B", "C", "D", "E", "F"}

\* the characters trim() strips by default (of " \t\n\r\0\x0B", those a model string can hold)
TrimChars == {" ", "\t", "\n", "\r"}

\* \s of the regular expressions
WhiteSpace == {" ", "\t", "\n", "\r", "\f"}

\* [a-zA-Z0-9.-]
TargetChars == Lower \cup Upper \cup Digit \cup {".", "-"}

----------------------------------------------------------------------------
(* PHP string built-ins *)

RECURSIVE ltrim(_)
ltrim(s) ==
    IF Len(s) > 0 /\ s[1] \in TrimChars THEN ltrim(Tail(s)) ELSE s

RECURSIVE rtrim(_)
rtrim(s) ==
    IF Len(s) > 0 /\ s[Len(s)] \in TrimChars THEN rtrim(SubSeq(s, 1, Len(s) - 1)) ELSE s

trim(s) == rtrim(ltrim(s))

\* empty() of a string: "" and "0" are both empty
empty(s) == Len(s) = 0 \/ (Len(s) = 1 /\ s[1] = "0")

\* empty() of an array
emptyArray(a) == Len(a) = 0

----------------------------------------------------------------------------
(* Input validation *)

AllIn(s, S) == \A i \in 1..Len(s) : s[i] \in S

\* preg_match('/^[a-zA-Z0-9.-]+$/', s); `$` also matches before a final newline
matchTargetPattern(s) ==
    \/ (Len(s) >= 1 /\ AllIn(s, TargetChars))
    \/ (Len(s) >= 2 /\ s[Len(s)] = "\n" /\ AllIn(SubSeq(s, 1, Len(s) - 1), TargetChars))

RequiredError ==
    [error |-> "Target parameter is required",
     usage |-> "api/trace.php?target=google.com"]

FormatError ==
    [error |-> "Invalid target format. Only domain names and IP addresses are allowed."]

\* $target = isset($_GET['target']) ? trim($_GET['target']) : ''
trimmedTarget(g) == IF g.isset THEN trim(g.target) ELSE <<>>

----------------------------------------------------------------------------
(* Output parser *)

UpperSeq == <<"A", "B", "C", "D", "E", "F", "G", "H", "I", "J", "K", "L", "M",
              "N", "O", "P", "Q", "R", "S", "T", "U", "V", "W", "X", "Y", "Z">>

LowerSeq == <<"a", "b", "c", "d", "e", "f", "g", "h", "i", "j", "k", "l", "m",
              "n", "o", "p", "q", "r", "s", "t", "u", "v", "w", "x", "y", "z">>

\* case folding of one character, as stripos compares
LowerOf == [c \in Upper |-> LowerSeq[CHOOSE i \in 1..26 : UpperSeq[i] = c]]

toLower(c) == IF c \in Upper THEN LowerOf[c] ELSE c

\* stripos(haystack, needle) !== false
striposFound(haystack, needle) ==
    \E i \in 1..(Len(haystack) - Len(needle) + 1) :
        \A j \in 1..Len(needle) : toLower(haystack[i + j - 1]) = toLower(needle[j])

TimedOutMarker ==
    <<"R","e","q","u","e","s","t"," ","t","i","m","e","d"," ","o","u","t">>

\* first position >= i of s that holds no character of S (Len(s) + 1 when none)
RECURSIVE skip(_, _, _)
skip(s, i, S) ==
    IF i <= Len(s) /\ s[i] \in S THEN skip(s, i + 1, S) ELSE i

charAt(s, i, c) == i <= Len(s) /\ s[i] = c

\* preg_match('/^\s*\d+\s+\*\s+\*\s+\*/', s)
matchAsterisks(s) ==
    LET d  == skip(s, 1, WhiteSpace)
        w1 == skip(s, d, Digit)
        a1 == skip(s, w1, WhiteSpace)
        a2 == skip(s, a1 + 1, WhiteSpace)
        a3 == skip(s, a2 + 1, WhiteSpace)
    IN  /\ w1 > d
        /\ a1 > w1 /\ charAt(s, a1, "*")
        /\ a2 > a1 + 1 /\ charAt(s, a2, "*")
        /\ a3 > a2 + 1 /\ charAt(s, a3, "*")

\* least element of a non-empty set of positions, 0 for the empty set
firstOf(M) == IF M = {} THEN 0 ELSE CHOOSE i \in M : \A j \in M : i <= j

\* [0-9a-fA-F]{1,4}:[0-9a-fA-F:]+ matches at position i of s
ipv6At(s, i) ==
    LET e == skip(s, i, HexDigit)
    IN  /\ e - i \in 1..4
        /\ charAt(s, e, ":")
        /\ e + 1 <= Len(s) /\ s[e + 1] \in HexDigit \cup {":"}

\* $matches[1] of preg_match('/([0-9a-fA-F]{1,4}:[0-9a-fA-F:]+)/', s): <<>> for no
\* match, else <<the text of the leftmost match>>
matchIPv6(s) ==
    LET i == firstOf({k \in 1..Len(s) : ipv6At(s, k)})
    IN  IF i = 0 THEN <<>>
        ELSE LET e == skip(s, i, HexDigit)
             IN  <<SubSeq(s, i, skip(s, e + 1, HexDigit \cup {":"}) - 1)>>

\* \d{1,3}\. matches at position i of s: the position after the dot, else 0
octetDot(s, i) ==
    LET e == skip(s, i, Digit)
    IN  IF i > 0 /\ e - i \in 1..3 /\ charAt(s, e, ".") THEN e + 1 ELSE 0

\* last position of \d{1,3}\.\d{1,3}\.\d{1,3}\.\d{1,3} matched at position i, else 0
ipv4End(s, i) ==
    LET o4 == octetDot(s, octetDot(s, octetDot(s, i)))
        e  == skip(s, o4, Digit)
    IN  IF o4 > 0 /\ e > o4 THEN (IF e - o4 > 3 THEN o4 + 2 ELSE e - 1) ELSE 0

\* $matches[1] of preg_match('/\[?(\d{1,3}\.\d{1,3}\.\d{1,3}\.\d{1,3})\]?/', s)
matchIPv4(s) ==
    LET i == firstOf({k \in 1..Len(s) : ipv4End(s, k) > 0})
    IN  IF i = 0 THEN <<>> ELSE <<SubSeq(s, i, ipv4End(s, i))>>

\* the first two tests of the loop body: the line is skipped
skipLine(line) ==
    \/ empty(trim(line))
    \/ striposFound(line, TimedOutMarker)
    \/ matchAsterisks(line)

\* the two patterns tried in the other order
lineAddressIPv4First(line) ==
    LET v4 == matchIPv4(line)
    IN  IF v4 # <<>> THEN v4 ELSE matchIPv6(line)

\* $ip after the if / elseif: <<>> for null, else <<the address>>
lineAddress(line) ==
    LET v6 == matchIPv6(line)
    IN  IF v6 # <<>> THEN v6 ELSE matchIPv4(line)

\* in_array($ip, $ips): both are non-numeric strings, so == is string equality
in_array(ip, arr) == \E i \in 1..Len(arr) : arr[i] = ip

\* the loop body without the in_array test
parseLineNoDedup(line, acc) ==
    IF skipLine(line) \/ lineAddress(line) = <<>> THEN acc
    ELSE Append(acc, lineAddress(line)[1])

\* the loop body, had a line without an address left an entry in $ips
parseLineKeepGaps(line, acc) ==
    IF skipLine(line) \/ lineAddress(line) = <<>> THEN Append(acc, <<"*">>)
    ELSE IF in_array(lineAddress(line)[1], acc) THEN acc
    ELSE Append(acc, lineAddress(line)[1])

\* one pass of the foreach body: $ips after the line
parseLine(line, acc) ==
    IF skipLine(line) THEN acc
    ELSE IF lineAddress(line) = <<>> THEN acc
    ELSE IF in_array(lineAddress(line)[1], acc) THEN acc
    ELSE Append(acc, lineAddress(line)[1])

RECURSIVE parseFrom(_, _)
parseFrom(output, acc) ==
    IF Len(output) = 0 THEN acc
    ELSE parseFrom(Tail(output), parseLine(Head(output), acc))

parseTraceroute(output, isWindows) == parseFrom(output, <<>>)

----------------------------------------------------------------------------
(* Lines the discovery tools print *)

\* "Tracing route to dns.google [8.8.8.8]"
LineHeader ==
    <<"T","r","a","c","i","n","g"," ","r","o","u","t","e"," ","t","o"," ",
      "d","n","s",".","g","o","o","g","l","e"," ","[","8",".","8",".","8",".","8","]">>

\* "  1    <1 ms  192.168.1.1"
LineHopWindows ==
    <<" "," ","1"," "," "," "," ","<","1"," ","m","s"," "," ",
      "1","9","2",".","1","6","8",".","1",".","1">>

\* " 1  gw (192.168.1.1)  1.2 ms"
LineHopUnix ==
    <<" ","1"," "," ","g","w"," ","(","1","9","2",".","1","6","8",".","1",".","1",")",
      " "," ","1",".","2"," ","m","s">>

\* "  2     *        *        *     Request timed out."
LineTimedOut ==
    <<" "," ","2"," "," "," "," "," ","*"," "," "," "," "," "," "," "," ","*",
      " "," "," "," "," "," "," "," ","*"," "," "," "," "," ",
      "R","e","q","u","e","s","t"," ","t","i","m","e","d"," ","o","u","t",".">>

\* " 3  * * *"
LineAsterisks == <<" ","3"," "," ","*"," ","*"," ","*">>

\* "  4    12 ms  b.example [192.0.2.5]"
LineHopBracket ==
    <<" "," ","4"," "," "," "," ","1","2"," ","m","s"," "," ",
      "b",".","e","x","a","m","p","l","e"," ","[","1","9","2",".","0",".","2",".","5","]">>

\* " 5  2001:4860:0:1::67e  10.1 ms"
LineHopV6 ==
    <<" ","5"," "," ","2","0","0","1",":","4","8","6","0",":","0",":","1",":",":","6","7","e",
      " "," ","1","0",".","1"," ","m","s">>

LineBlank == <<>>

\* "traceroute to dns.google (8.8.8.8), 15 hops max"
LineHeaderUnix ==
    <<"t","r","a","c","e","r","o","u","t","e"," ","t","o"," ","d","n","s",".",
      "g","o","o","g","l","e"," ","(","8",".","8",".","8",".","8",")",","," ",
      "1","5"," ","h","o","p","s"," ","m","a","x">>

\* what tracert prints (Windows dialect) and what traceroute prints (Unix dialect)
Lines(isWindows) ==
    IF isWindows
    THEN {LineHeader, LineHopWindows, LineTimedOut, LineHopBracket, LineBlank}
    ELSE {LineHeaderUnix, LineHopUnix, LineAsterisks, LineHopV6, LineBlank}

\* " 6  2001:db8::7 [192.0.2.7]  3 ms": an IPv6 and an IPv4 literal on one line
LineHopBoth ==
    <<" ","6"," "," ","2","0","0","1",":","d","b","8",":",":","7"," ","[",
      "1","9","2",".","0",".","2",".","7","]"," "," ","3"," ","m","s">>

\* " 7  *": a single probe without reply
LineOneAsterisk == <<" ","7"," "," ","*">>

\* "   ": blanks only
LineSpaces == <<" "," "," ">>

\* the lines of the parser runs: those above and three more
ParseLines(isWindows) ==
    IF isWindows
    THEN Lines(TRUE) \cup {LineSpaces}
    ELSE Lines(FALSE) \cup {LineHopBoth, LineOneAsterisk}

----------------------------------------------------------------------------
(* Path discovery *)

\* "tracert -4 -h 15 -w 1000 "
TracertCommand ==
    <<"t","r","a","c","e","r","t"," ","-","4"," ","-","h"," ","1","5"," ",
      "-","w"," ","1","0","0","0"," ">>

\* "traceroute -m 15 -w 1 "
TracerouteCommand ==
    <<"t","r","a","c","e","r","o","u","t","e"," ","-","m"," ","1","5"," ",
      "-","w"," ","1"," ">>

\* the body of a single-quoted Unix shell word: ' becomes '\''
RECURSIVE quoteUnix(_)
quoteUnix(s) ==
    IF Len(s) = 0 THEN <<>>
    ELSE (IF s[1] = "'" THEN <<"'", "\\", "'", "'">> ELSE <<s[1]>>) \o quoteUnix(Tail(s))

\* escapeshellarg($target) on either platform
escapeshellarg(s, isWindows) ==
    IF isWindows
    THEN <<"\"">> \o [i \in 1..Len(s) |-> IF s[i] \in {"%", "!", "\""} THEN " " ELSE s[i]]
                  \o <<"\"">>
    ELSE <<"'">> \o quoteUnix(s) \o <<"'">>

\* $command
command(t, isWindows) ==
    (IF isWindows THEN TracertCommand ELSE TracerouteCommand) \o escapeshellarg(t, isWindows)

----------------------------------------------------------------------------
(* Geolocation lookup *)

\* JSON values: null, a string, a number (its digits); JAbsent marks a key that
\* a decoded object does not hold
JNull == <<"null">>
JAbsent == <<"absent">>
JStr(s) == <<"str", s>>
JNum(s) == <<"num", s>>

StrSuccess == <<"s","u","c","c","e","s","s">>
StrFail == <<"f","a","i","l">>
StrOther == <<"x">>

\* the fields asked of ip-api.com
ResponseKeys ==
    {"status", "message", "country", "countryCode", "region", "regionName", "city",
     "lat", "lon", "isp", "org", "as", "query"}

\* a decoded JSON object holding the keys of `present`
Obj(status, query, lat, lon, present) ==
    [k \in ResponseKeys |->
        IF k \notin present THEN JAbsent
        ELSE IF k = "status" THEN JStr(status)
        ELSE IF k = "query" THEN JStr(query)
        ELSE IF k = "lat" THEN lat
        ELSE IF k = "lon" THEN lon
        ELSE JStr(StrOther)]

NoData == [k \in ResponseKeys |-> JAbsent]

\* What file_get_contents can return for the lookup of `ip`:
\*   false      - no response (network failure, timeout)
\*   undecoded  - a body json_decode turns into null
\*   number     - a body that is a JSON number other than 0
\*   string     - a body that is a JSON string, non-empty and not "0"
\*   object     - a body that is a JSON object
Responses(ip) ==
    {[kind |-> "false", data |-> NoData],
     [kind |-> "undecoded", data |-> NoData],
     [kind |-> "number", data |-> NoData],
     [kind |-> "string", data |-> NoData],
     [kind |-> "object", data |-> NoData],
     [kind |-> "object", data |-> Obj(StrFail, ip, JNull, JNull, {"status", "message", "query"})],
     [kind |-> "object", data |-> Obj(StrFail, ip, JNull, JNull, {"message"})],
     [kind |-> "object", data |-> Obj(StrSuccess, ip, JNum(<<"5">>), JNum(<<"7">>),
                                      ResponseKeys \ {"message"})],
     [kind |-> "object", data |-> Obj(StrSuccess, ip, JNull, JNull,
                                      {"status", "query", "country", "countryCode"})],
     [kind |-> "object", data |-> Obj(StrSuccess, ip, JNum(<<"5">>), JNum(<<"7">>),
                                      ResponseKeys \ {"message", "query"})],
     [kind |-> "object", data |-> Obj(StrSuccess, StrOther, JNum(<<"5">>), JNum(<<"7">>),
                                      ResponseKeys \ {"message"})]}

\* if ($data): a decoded value is true unless it is null or an empty array
truthy(resp) ==
    \/ resp.kind \in {"number", "string"}
    \/ (resp.kind = "object" /\ \E k \in ResponseKeys : resp.data[k] # JAbsent)

\* $data[k] of a decoded object: null for a key it does not hold
arrayGet(data, k) == IF data[k] = JAbsent THEN JNull ELSE data[k]

\* $data[k] ?? null
coalesce(data, k) == IF data[k] = JAbsent THEN JNull ELSE data[k]

\* Reading $data['status'] throws when $data is a string and PHP is 8 or later
\* (TypeError, string offset of type string); PHP 7 warns and reads $data[0].
statusThrows(resp, php) == resp.kind = "string" /\ php >= 8

\* $data['status'] === 'success'
statusIsSuccess(resp) ==
    resp.kind = "object" /\ arrayGet(resp.data, "status") = JStr(StrSuccess)

SuccessKeys ==
    {"ip", "country", "countryCode", "region", "city", "lat", "lon", "isp", "org", "as"}

FallbackKeys == {"ip", "country", "city", "lat", "lon", "isp"}

\* the array returned for a successful lookup
geoSuccess(data) ==
    [k \in SuccessKeys |->
        IF k = "ip" THEN arrayGet(data, "query")
        ELSE IF k = "region" THEN coalesce(data, "regionName")
        ELSE coalesce(data, k)]

\* the minimal array returned when the lookup fails
geoFallback(ip) ==
    [k \in FallbackKeys |-> IF k = "ip" THEN JStr(ip) ELSE JNull]

TypeErrorMessage == "Cannot access offset of type string on string"

\* getGeolocation($ip) when file_get_contents returns resp
getGeolocation(ip, resp, php) ==
    IF resp.kind # "false" /\ truthy(resp) /\ statusThrows(resp, php)
    THEN [threw |-> TRUE, value |-> geoFallback(ip)]
    ELSE IF resp.kind # "false" /\ truthy(resp) /\ statusIsSuccess(resp)
    THEN [threw |-> FALSE, value |-> geoSuccess(resp.data)]
    ELSE [threw |-> FALSE, value |-> geoFallback(ip)]

\* the array key itself as the hop number
hopNumberZeroBased(index) == index

\* $geoData['hop'] = $index + 1
hopNumber(index) == index + 1

\* a delay after every lookup, the last one too
needsDelayAlways(index, count) == index < count

\* if ($index < count($ips) - 1): a delay follows this lookup
needsDelay(index, count) == index < count - 1

\* usleep(700000)
UsleepMicros == <<"7","0","0","0","0","0">>

----------------------------------------------------------------------------
(* Requests and the environment *)

MaxLines == 3
MaxTargetLen == 2

\* "example.com " (trim removes the trailing blank)
TargetExample == <<"e","x","a","m","p","l","e",".","c","o","m"," ">>

\* "192.0.2.1"
TargetIPv4 == <<"1","9","2",".","0",".","2",".","1">>

\* "a-b.c-d.net"
TargetHyphens == <<"a","-","b",".","c","-","d",".","n","e","t">>

\* "a;b"
TargetInjection == <<"a",";","b">>

\* the query strings of the pipeline runs
Targets == {TargetExample, TargetInjection, <<"0">>, <<>>}

\* characters of the query strings of the validation runs
TargetAlphabet == {"a", "Z", "0", "7", ".", "-", "_", ";", "|", "$", "/", " ", "\n"}

StringsUpTo(A, n) == UNION {[1..k -> A] : k \in 0..n}

Requests(T) ==
    {[isset |-> FALSE, target |-> <<>>]} \cup {[isset |-> TRUE, target |-> t] : t \in T}

\* every output of at most MaxLines lines
Outputs(isWindows) == StringsUpTo(Lines(isWindows), MaxLines)

\* exit statuses of the discovery process
ReturnCodes == {0, 1}

PhpVersions == {7, 8}

NoTraceResult == [output |-> <<>>, returnCode |-> 0, isWindows |-> FALSE]

\* currentTraceData = null
NoTraceData == [kind |-> "null", error |-> "", hops |-> <<>>]

\* the text of #loadingMessage in the page markup
MessageInitial == "Tracing route..."

\* the page as loaded: the globals of the script as declared, the elements as
\* the markup has them
PageLoaded ==
    /\ handler = "Idle"
    /\ markers = <<>>
    /\ polylines = <<>>
    /\ currentTraceData = NoTraceData
    /\ progressInterval = FALSE
    /\ progress = 0
    /\ dom = [loadingHidden |-> TRUE, btnDisabled |-> FALSE, percent |-> 0,
              message |-> MessageInitial, detailsHidden |-> TRUE, notice |-> ""]

InitWith(T) ==
    /\ get \in Requests(T)
    /\ phpMajor \in PhpVersions
    /\ pc = "Validating"
    /\ target = <<>>
    /\ traceResult = NoTraceResult
    /\ ips = <<>>
    /\ hops = <<>>
    /\ calls = <<>>
    /\ buffer = <<>>
    /\ sent = <<>>
    /\ PageLoaded

Init == InitWith(Targets)

InitValidate ==
    InitWith(StringsUpTo(TargetAlphabet, MaxTargetLen)
             \cup {TargetExample, TargetIPv4, TargetHyphens, TargetInjection})

----------------------------------------------------------------------------
(* The script *)

\* the validation without the preg_match test
validateNoAllowList(t) ==
    IF empty(t) THEN "required" ELSE "ok"

\* the two validation tests: which branch the script takes for $target
validate(t) ==
    IF empty(t) THEN "required"
    ELSE IF ~matchTargetPattern(t) THEN "format"
    ELSE "ok"

\* lines 36-54: read and trim the parameter; echo an error and exit, or go on
Validate ==
    /\ pc = "Validating"
    /\ target' = trimmedTarget(get)
    /\ LET v == validate(target')
           echoed == IF v = "required" THEN <<RequiredError>>
                     ELSE IF v = "format" THEN <<FormatError>>
                     ELSE <<>>
       IN  \* exit sends what the buffer holds
           /\ sent' = IF v = "ok" THEN sent ELSE (sent \o buffer) \o echoed
           /\ buffer' = IF v = "ok" THEN buffer ELSE <<>>
           /\ pc' = IF v = "ok" THEN "Invoking" ELSE "Done"
    /\ UNCHANGED <<get, phpMajor, traceResult, ips, hops, calls>>
    /\ UNCHANGED client

\* catch (Exception $e): ob_clean(), echo the error envelope
catchException(msg, t) == <<[error |-> msg, target |-> t]>>

\* catch (Throwable $e), not caught at all: nothing is written
catchNothing(msg, t) == <<>>

\* catch (Throwable $e): ob_clean(), echo the error envelope
catchThrowable(msg, t) ==
    <<[error |-> "An unexpected error occurred: " \o msg, target |-> t]>>

\* the test of line 279, had it looked at the exit status as well
discoveryFailedOnStatus(result) ==
    emptyArray(result.output) \/ result.returnCode # 0

\* if (empty($traceResult['output'])): whether path discovery counts as failed
discoveryFailed(result) == emptyArray(result.output)

\* lines 276-281 with executeTraceroute: run the tool, fail on no output
Invoke ==
    /\ pc = "Invoking"
    /\ \E isWindows \in BOOLEAN :
       \E output \in Outputs(isWindows), returnCode \in ReturnCodes :
          /\ traceResult' = [output |-> output, returnCode |-> returnCode,
                             isWindows |-> isWindows]
          /\ calls' = Append(calls, [op |-> "exec", arg |-> command(target, isWindows),
                                     reply |-> "none"])
          /\ IF discoveryFailed(traceResult')
             THEN /\ buffer' = catchException(
                                  "Traceroute command failed or returned no output", target)
                  /\ pc' = "Flushing"
             ELSE /\ buffer' = buffer
                  /\ pc' = "Parsing"
    /\ UNCHANGED <<get, phpMajor, target, ips, hops, sent>>
    /\ UNCHANGED client

\* where the script goes with the parsed addresses, without the empty($ips) test
afterParseNoCheck(parsed) == "Enriching"

\* if (empty($ips)) throw ...: where the script goes with the parsed addresses
afterParse(parsed) == IF emptyArray(parsed) THEN "Flushing" ELSE "Enriching"

\* lines 284-288: parse the output, fail on no address
Parse ==
    /\ pc = "Parsing"
    /\ ips' = parseTraceroute(traceResult.output, traceResult.isWindows)
    /\ pc' = afterParse(ips')
    /\ buffer' = IF pc' = "Flushing"
                 THEN catchException(
                         "No valid IP addresses found in traceroute output", target)
                 ELSE buffer
    /\ UNCHANGED <<get, phpMajor, target, traceResult, hops, calls, sent>>
    /\ UNCHANGED client

\* whether the reply to a lookup carries the service's explicit success status
replyOf(resp) ==
    IF resp.kind = "object" /\ resp.data["status"] = JStr(StrSuccess)
    THEN "success" ELSE "failure"

\* lines 250-265: one pass of the foreach of getGeolocations, for $index = Len(hops)
Lookup ==
    /\ pc = "Enriching"
    /\ Len(hops) < Len(ips)
    /\ LET idx == Len(hops)
           ip == ips[idx + 1]
       IN  \E resp \in Responses(ip) :
              LET geo == getGeolocation(ip, resp, phpMajor)
                  asked == Append(calls, [op |-> "lookup", arg |-> ip,
                                          reply |-> replyOf(resp)])
              IN  IF geo.threw
                  THEN /\ calls' = asked
                       /\ buffer' = catchThrowable(TypeErrorMessage, target)
                       /\ pc' = "Flushing"
                       /\ hops' = hops
                  ELSE /\ hops' = Append(hops, geo.value @@ ("hop" :> hopNumber(idx)))
                       /\ calls' = IF needsDelay(idx, Len(ips))
                                   THEN Append(asked, [op |-> "usleep", arg |-> UsleepMicros,
                                                       reply |-> "none"])
                                   ELSE asked
                       /\ buffer' = buffer
                       /\ pc' = "Enriching"
    /\ UNCHANGED <<get, phpMajor, target, traceResult, ips, sent>>
    /\ UNCHANGED client

\* lines 291-304: getGeolocations has returned; ob_clean(), echo the success envelope
Assemble ==
    /\ pc = "Enriching"
    /\ Len(hops) = Len(ips)
    /\ buffer' = <<[success |-> TRUE,
                    target |-> target,
                    timestamp |-> "Y-m-d H:i:s",
                    hopCount |-> Len(hops),
                    hops |-> hops]>>
    /\ pc' = "Flushing"
    /\ UNCHANGED <<get, phpMajor, target, traceResult, ips, hops, calls, sent>>
    /\ UNCHANGED client

\* the markup that follows the closing tag of the script
PageMarkup == [html |-> "<!DOCTYPE html>"]

\* line 323 and what follows it: ob_end_flush(), then the inline markup
Flush ==
    /\ pc = "Flushing"
    /\ sent' = (sent \o buffer) \o <<PageMarkup>>
    /\ buffer' = <<>>
    /\ pc' = "Done"
    /\ UNCHANGED <<get, phpMajor, target, traceResult, ips, hops, calls>>
    /\ UNCHANGED client

Next == Validate \/ Invoke \/ Parse \/ Lookup \/ Assemble \/ Flush

Spec == Init /\ [][Next]_vars

\* the validator alone, over every short query string
SpecValidate == InitValidate /\ [][Validate]_vars

\* the state Invoke leaves for a tool that printed some of the lines of ParseLines
InitParse ==
    /\ get = [isset |-> TRUE, target |-> TargetExample]
    /\ phpMajor \in PhpVersions
    /\ pc = "Parsing"
    /\ target = trimmedTarget(get)
    /\ \E isWindows \in BOOLEAN :
          /\ traceResult \in
                [output : StringsUpTo(ParseLines(isWindows), MaxLines) \ {<<>>},
                 returnCode : ReturnCodes,
                 isWindows : {isWindows}]
          /\ calls = <<[op |-> "exec", arg |-> command(target, isWindows),
                        reply |-> "none"]>>
    /\ ips = <<>>
    /\ hops = <<>>
    /\ buffer = <<>>
    /\ sent = <<>>
    /\ PageLoaded

\* the parser alone, over every output of at most MaxLines lines
SpecParse == InitParse /\ [][Parse]_vars

----------------------------------------------------------------------------
(* The page script: what it is given *)

MaxHops == 2

\* String.prototype.trim
RECURSIVE jsTrimStart(_)
jsTrimStart(s) ==
    IF Len(s) > 0 /\ Head(s) \in WhiteSpace THEN jsTrimStart(Tail(s)) ELSE s

RECURSIVE jsTrimEnd(_)
jsTrimEnd(s) ==
    IF Len(s) > 0 /\ s[Len(s)] \in WhiteSpace
    THEN jsTrimEnd(SubSeq(s, 1, Len(s) - 1)) ELSE s

jsTrim(s) == jsTrimEnd(jsTrimStart(s))

\* a value in a condition: null, undefined, 0 and "" count as false
jsTruthy(v) == v \notin {JNull, JAbsent, JNum(<<"0">>), JStr(<<>>)}

\* what the user has typed when the form is submitted
InputValues == {<<" ">>, TargetExample}

\* the coordinates of a hop: a place, a place on the equator, none
HopCoordinates ==
    {[lat |-> JNum(<<"5">>), lon |-> JNum(<<"7">>)],
     [lat |-> JNum(<<"0">>), lon |-> JNum(<<"7">>)],
     [lat |-> JNull, lon |-> JNull]}

\* hops as the API numbers them
numbered(cs) ==
    [i \in 1..Len(cs) |-> [hop |-> i, lat |-> cs[i].lat, lon |-> cs[i].lon]]

HopLists == {numbered(cs) : cs \in StringsUpTo(HopCoordinates, MaxHops)}

ApiError == "No valid IP addresses found in traceroute output"

\* the bodies of a response: not JSON, an error envelope, an object with
\* neither error nor hops, a success envelope
Bodies ==
    {[kind |-> "notJson", error |-> "", hops |-> <<>>],
     [kind |-> "error", error |-> ApiError, hops |-> <<>>],
     [kind |-> "noHops", error |-> "", hops |-> <<>>]}
    \cup {[kind |-> "success", error |-> "", hops |-> h] : h \in HopLists}

HttpStatuses == {200, 500}

\* response.ok
responseOk(status) == status >= 200 /\ status <= 299

----------------------------------------------------------------------------
(* The page script: the map *)

\* data.hops.filter(hop => hop.lat && hop.lon)
validHops(hopList) ==
    SelectSeq(hopList, LAMBDA hop : jsTruthy(hop.lat) /\ jsTruthy(hop.lon))

\* createHopMarker(hop, originalIndex): the marker pushed onto markers
createHopMarker(hop, originalIndex) ==
    [label |-> IF hop.hop # 0 THEN hop.hop ELSE originalIndex + 1,
     lat |-> hop.lat,
     lon |-> hop.lon,
     originalIndex |-> originalIndex]

NoticeNoHops == "No hops found in the trace route"

NoticeNoGeo == "No geographic data available for this route"

\* visualizeRoute(data) with markers = ms and polylines = ps: the two lists
\* afterwards and the error shown ("" for none)
visualizeRoute(data, ms, ps) ==
    IF data.kind = "noHops" \/ Len(data.hops) = 0
    THEN [markers |-> ms, polylines |-> ps, notice |-> NoticeNoHops]
    ELSE LET valid == validHops(data.hops)
         IN  IF Len(valid) = 0
             THEN [markers |-> ms, polylines |-> ps, notice |-> NoticeNoGeo]
             ELSE [markers |->
                      ms \o [i \in 1..Len(valid) |->
                                createHopMarker(valid[i], valid[i].hop - 1)],
                   polylines |->
                      Append(ps, [i \in 1..Len(valid) |-> <<valid[i].lat, valid[i].lon>>]),
                   notice |-> ""]

----------------------------------------------------------------------------
(* The page script: the simulated progress *)

\* progress has been summed with 0.8, 0.4 or 0.1, which binary floating point
\* does not hold exactly: the value is a little below or above its decimal
Inexact(p) == p > 300

\* progress < limit, limit in percent; below: the value is under its decimal
lessThan(p, limit, below) == p < 10 * limit \/ (p = 10 * limit /\ below)

\* the increment of one callback, in tenths
increment(p, below) ==
    IF lessThan(p, 30, below) THEN 20
    ELSE IF lessThan(p, 60, below) THEN 8
    ELSE IF lessThan(p, 80, below) THEN 4
    ELSE IF lessThan(p, 95, below) THEN 1
    ELSE 0

\* if (progress > 99) progress = 99
capProgress(p) == IF p > 990 THEN 990 ELSE p

\* Math.round(progress): halves go up, unless the value is under its decimal
round(p, below) == IF p % 10 = 5 /\ below THEN p \div 10 ELSE (p + 5) \div 10

\* the message for a percentage
messageFor(currentPercent) ==
    IF currentPercent < 20 THEN "Resolving domain..."
    ELSE IF currentPercent < 40 THEN "Starting hops..."
    ELSE IF currentPercent < 70 THEN "Analyzing route..."
    ELSE IF currentPercent < 90 THEN "Identifying location..."
    ELSE "Finalizing..."

\* the sides the rounding error of a value can be on
Sides(p) == IF Inexact(p) THEN BOOLEAN ELSE {FALSE}

\* one run of the interval callback, every 200 ms while the interval is active
Tick ==
    /\ progressInterval
    /\ \E below \in Sides(progress) :
          LET next == capProgress(progress + increment(progress, below))
          IN  /\ progress' = next
              /\ \E under \in Sides(next) :
                    dom' = [dom EXCEPT !.percent = round(next, under),
                                       !.message = messageFor(round(next, under))]
    /\ UNCHANGED <<handler, markers, polylines, currentTraceData, progressInterval>>
    /\ UNCHANGED server

----------------------------------------------------------------------------
(* The page script: the submit handler *)

NoticeEmpty == "Please enter a valid domain or IP address"

FailurePrefix == "Failed to trace route: "

\* the finally block, had it been code after the try that a throw skips
finallyOnlyWithoutThrow(thrown) == ~thrown

\* finally { showLoading(false); } runs whether or not the try block threw
finallyRuns(thrown) == TRUE

\* handleTraceSubmit up to its first await: the empty check, showLoading(true)
\* with startProgress, clearMap, hideHopDetails, fetch
Submit ==
    /\ handler = "Idle"
    /\ ~dom.btnDisabled
    /\ \E value \in InputValues :
          IF Len(jsTrim(value)) = 0
          THEN /\ dom' = [dom EXCEPT !.notice = NoticeEmpty]
               /\ UNCHANGED <<handler, markers, polylines, progressInterval, progress>>
          ELSE /\ dom' = [dom EXCEPT !.loadingHidden = FALSE,
                                      !.btnDisabled = TRUE,
                                      !.percent = 0,
                                      !.detailsHidden = TRUE]
               /\ progress' = 0
               /\ progressInterval' = TRUE
               /\ markers' = <<>>
               /\ polylines' = <<>>
               /\ handler' = "AwaitFetch"
    /\ UNCHANGED currentTraceData
    /\ UNCHANGED server

\* the rest of handleTraceSubmit once the try block is over: the catch block
\* when it threw, then the finally block with showLoading(false), stopProgress
Complete(thrown, message, data, shown) ==
    LET notice == IF thrown THEN FailurePrefix \o message
                  ELSE IF shown.notice # "" THEN shown.notice
                  ELSE dom.notice
        after == [dom EXCEPT !.notice = notice,
                             !.detailsHidden = IF thrown THEN dom.detailsHidden ELSE FALSE]
    IN  /\ handler' = "Idle"
        /\ currentTraceData' = data
        /\ markers' = shown.markers
        /\ polylines' = shown.polylines
        /\ IF finallyRuns(thrown)
           THEN /\ progressInterval' = FALSE
                \* the callback of the cleared interval, and its progress, are gone
                /\ progress' = 0
                /\ dom' = [after EXCEPT !.loadingHidden = TRUE,
                                        !.btnDisabled = FALSE,
                                        !.percent = 100]
           ELSE /\ UNCHANGED <<progressInterval, progress>>
                /\ dom' = after
        /\ UNCHANGED server

\* markers and polylines as they are
Unshown == [markers |-> markers, polylines |-> polylines, notice |-> ""]

\* the fetch promise settles: rejected, or a response whose status is tested
FetchSettles ==
    /\ handler = "AwaitFetch"
    /\ \E status \in HttpStatuses \cup {0} :
          IF status = 0
          THEN Complete(TRUE, "Failed to fetch", currentTraceData, Unshown)
          ELSE IF ~responseOk(status)
          THEN Complete(TRUE, "HTTP error! status: 500", currentTraceData, Unshown)
          ELSE /\ handler' = "AwaitJson"
               /\ UNCHANGED <<markers, polylines, currentTraceData, progressInterval,
                              progress, dom>>
               /\ UNCHANGED server

\* response.json() settles: the error check, currentTraceData = data,
\* visualizeRoute, displayHopDetails
JsonSettles ==
    /\ handler = "AwaitJson"
    /\ \E data \in Bodies :
          IF data.kind = "notJson"
          THEN Complete(TRUE, "Unexpected token < in JSON", currentTraceData, Unshown)
          ELSE IF jsTruthy(JStr(data.error))
          THEN Complete(TRUE, data.error, currentTraceData, Unshown)
          ELSE LET shown == visualizeRoute(data, markers, polylines)
               IN  IF data.kind = "noHops"
                   THEN \* displayHopDetails: data.hops is undefined
                        Complete(TRUE, "Cannot read properties of undefined",
                                 data, shown)
                   ELSE Complete(FALSE, "", data, shown)

\* a click on #closeDetails: hideHopDetails
CloseDetails ==
    /\ ~dom.detailsHidden
    /\ dom' = [dom EXCEPT !.detailsHidden = TRUE]
    /\ UNCHANGED <<handler, markers, polylines, currentTraceData, progressInterval,
                   progress>>
    /\ UNCHANGED server

NextClient == Submit \/ Tick \/ FetchSettles \/ JsonSettles \/ CloseDetails

InitClient == InitWith({}) /\ phpMajor = 8

\* the page script alone
SpecClient == InitClient /\ [][NextClient]_vars

----------------------------------------------------------------------------
(* Vocabulary of the properties *)

\* the JSON envelopes among the chunks of a response
Envelopes(chunks) == SelectSeq(chunks, LAMBDA c : "html" \notin DOMAIN c)

IsSuccessEnvelope(c) == "success" \in DOMAIN c /\ c.success = TRUE

IsErrorEnvelope(c) == "error" \in DOMAIN c /\ "success" \notin DOMAIN c

\* the envelopes written so far, sent or still buffered
Written == Envelopes(sent) \o Envelopes(buffer)

\* the calls of one kind, in the order they were made
CallsOf(op) == SelectSeq(calls, LAMBDA c : c.op = op)

\* the addresses asked of the geolocation service, in order
LookedUp == [i \in 1..Len(CallsOf("lookup")) |-> CallsOf("lookup")[i].arg]

\* what each line the tools print contributes: <<>>, or <<its address>>
Extracted ==
    [l \in Lines(TRUE) \cup Lines(FALSE) |-> IF skipLine(l) THEN <<>> ELSE lineAddress(l)]

\* the lines of the output that yield an address
Responsive(output) == {k \in 1..Len(output) : Extracted[output[k]] # <<>>}

\* the allow-list of the validator's contract
AllowedChars == Lower \cup Upper \cup Digit \cup {".", "-"}

\* the state Parse leaves behind
JustParsed ==
    /\ pc \in {"Enriching", "Flushing"}
    /\ Len(traceResult.output) > 0
    /\ Len(hops) = 0
    /\ Len(CallsOf("lookup")) = 0

\* the request is over and answered with a success envelope
Succeeded ==
    pc = "Done" /\ Len(Envelopes(sent)) = 1 /\ IsSuccessEnvelope(Envelopes(sent)[1])

----------------------------------------------------------------------------
(* C1 *)

\* C1: the address list parseTraceroute returns holds no address twice, holds
\* exactly the addresses extracted from the lines, and orders them by the line
\* each was first extracted from.
C1_NoDuplicateFirstAppearance ==
    JustParsed =>
        LET out == traceResult.output
            first(a) == firstOf({k \in Responsive(out) : Extracted[out[k]][1] = a})
        IN  /\ \A i, j \in 1..Len(ips) : i # j => ips[i] # ips[j]
            /\ {ips[i] : i \in 1..Len(ips)} = {Extracted[out[k]][1] : k \in Responsive(out)}
            /\ \A i, j \in 1..Len(ips) : i < j => first(ips[i]) < first(ips[j])

\* an output in which a later line repeats the address of an earlier one, and a
\* third line brings another address
C1_Witness ==
    /\ JustParsed
    /\ Len(ips) = 2
    /\ Cardinality(Responsive(traceResult.output)) = 3

----------------------------------------------------------------------------
(* C2 *)

\* C2: a request whose discovery output is non-empty and yields no address ends
\* with the "No valid IP addresses" error envelope, and no success envelope ever
\* written has an empty hops list or hopCount 0.
C2_NoHopsFoundNeverEmptySuccess ==
    /\ (pc = "Done" /\ Len(traceResult.output) > 0 /\ Responsive(traceResult.output) = {})
          => /\ Len(Envelopes(sent)) = 1
             /\ IsErrorEnvelope(Envelopes(sent)[1])
             /\ Envelopes(sent)[1].error = "No valid IP addresses found in traceroute output"
    /\ \A i \in 1..Len(Written) :
          IsSuccessEnvelope(Written[i])
             => Written[i].hopCount > 0 /\ Len(Written[i].hops) > 0

\* a finished request whose output had lines but no address
C2_Witness ==
    /\ pc = "Done"
    /\ Len(traceResult.output) = 2
    /\ Responsive(traceResult.output) = {}
    /\ Len(ips) = 0
    /\ IsErrorEnvelope(Envelopes(sent)[1])

----------------------------------------------------------------------------
(* C3 *)

GeoFields == {"country", "countryCode", "region", "city", "lat", "lon", "isp", "org", "as"}

\* C3: the hop of an address whose lookup failed has a non-null ip and carries
\* every geolocation field with the value null, and the request still ends with
\* a success envelope.
C3_FailedLookupAllFieldsNull ==
    /\ \A i \in 1..Len(hops) :
          CallsOf("lookup")[i].reply = "failure"
             => /\ hops[i]["ip"] # JNull
                /\ \A k \in GeoFields : k \in DOMAIN hops[i] /\ hops[i][k] = JNull
    /\ (pc = "Done" /\ Len(CallsOf("lookup")) > 0) => Succeeded

----------------------------------------------------------------------------
(* C4 *)

\* C4: in every success envelope the hop numbers are 1..hopCount in list order
\* and hopCount is the number of distinct addresses of the output, whatever
\* lines without an address lie between the responsive ones.
C4_HopNumbersContiguous ==
    \A e \in 1..Len(Written) :
        IsSuccessEnvelope(Written[e]) =>
            LET env == Written[e]
                out == traceResult.output
            IN  /\ env.hopCount = Len(env.hops)
                /\ \A i \in 1..Len(env.hops) : env.hops[i]["hop"] = i
                /\ env.hopCount = Len(ips)
                /\ env.hopCount =
                      Cardinality({Extracted[out[k]][1] : k \in Responsive(out)})

\* a success response for an output with an unresponsive line between two
\* responsive lines of different addresses
C4_Witness ==
    /\ Succeeded
    /\ Len(traceResult.output) = 3
    /\ Responsive(traceResult.output) = {1, 3}
    /\ Extracted[traceResult.output[2]] = <<>>
    /\ Envelopes(sent)[1].hopCount = 2
    /\ Envelopes(sent)[1].hops[2]["hop"] = 2

----------------------------------------------------------------------------
(* C5 *)

\* the allow-list rule: non-empty after trimming, every character a letter, a
\* digit, '.' or '-'
AllowListed(g) ==
    /\ g.isset
    /\ Len(trim(g.target)) > 0
    /\ \A i \in 1..Len(trim(g.target)) : trim(g.target)[i] \in AllowedChars

\* the request was turned down by the validator
Rejected ==
    /\ pc = "Done"
    /\ Len(calls) = 0
    /\ Len(sent) = 1
    /\ IsErrorEnvelope(sent[1])
    /\ sent[1].error \in {RequiredError.error, FormatError.error}

\* C5: the validator accepts a query string exactly when, trimmed, it is
\* non-empty and made of letters, digits, '.' and '-'; every other one ends in a
\* validation error.
C5_AcceptsExactlyAllowList ==
    pc # "Validating" =>
        /\ (pc = "Invoking") <=> AllowListed(get)
        /\ Rejected <=> ~AllowListed(get)

----------------------------------------------------------------------------
(* C6 *)

\* C6: a request whose target fails validation ends with an error response
\* without any external call, and the discovery command is only ever run with
\* the trimmed target, which passed the allow-list, as its one literal argument.
C6_NoExternalCallUnlessValid ==
    /\ (pc # "Validating" /\ ~AllowListed(get)) => Rejected
    /\ Len(calls) > 0 =>
          /\ AllowListed(get)
          /\ target = trim(get.target)
          /\ calls[1].op = "exec"
          /\ \E q \in {"'", "\""} :
                calls[1].arg \in {TracertCommand \o <<q>> \o target \o <<q>>,
                                  TracerouteCommand \o <<q>> \o target \o <<q>>}

\* a request with a shell metacharacter, turned down before any call
C6_Witness ==
    /\ Rejected
    /\ get.isset
    /\ get.target = TargetInjection
    /\ sent[1] = FormatError

----------------------------------------------------------------------------
(* C7 *)

\* C7: once the parser has produced at least one address the request ends with
\* a success envelope, whatever the lookups return.
C7_EnrichmentNeverFails ==
    (pc = "Done" /\ Len(ips) > 0) => Succeeded

----------------------------------------------------------------------------
(* C8 *)

\* getGeolocations has gone through all of a non-empty $ips
Returned == Len(ips) >= 1 /\ Len(hops) = Len(ips)

\* C8: lookups and delays alternate, starting with a lookup, and when
\* getGeolocations returns for N >= 1 addresses it has made N lookups and N-1
\* delays, the last call being a lookup.
C8_DelaysBetweenLookups ==
    LET geo == SelectSeq(calls, LAMBDA c : c.op # "exec")
    IN  /\ \A i \in 1..Len(geo) :
              geo[i].op = IF i % 2 = 1 THEN "lookup" ELSE "usleep"
        /\ Returned =>
              /\ Len(CallsOf("lookup")) = Len(ips)
              /\ Len(CallsOf("usleep")) = Len(ips) - 1
              /\ geo[Len(geo)].op = "lookup"

\* getGeolocations has returned for three addresses
C8_Witness ==
    /\ Returned
    /\ Len(ips) = 3
    /\ Len(CallsOf("usleep")) = 2

----------------------------------------------------------------------------
(* C9 *)

\* C9: the discovery process is run at most once, and in a finished request
\* every parsed address was looked up exactly once, in the order of $ips.
C9_EveryAddressLookedUpOnce ==
    /\ Len(CallsOf("exec")) <= 1
    /\ (pc = "Done" /\ Len(ips) > 0) => LookedUp = ips

----------------------------------------------------------------------------
(* C10 *)

----------------------------------------------------------------------------
(* C11 *)

DiscoveryFailure == "Traceroute command failed or returned no output"

\* the discovery tool has been run
Invoked == Len(CallsOf("exec")) = 1 /\ pc # "Invoking"

\* the request was answered, or is about to be, with the discovery failure
FailedDiscovery ==
    /\ pc \in {"Flushing", "Done"}
    /\ Len(ips) = 0
    /\ Len(Written) = 1
    /\ IsErrorEnvelope(Written[1])
    /\ Written[1].error = DiscoveryFailure

\* C11: once the discovery tool has been run, the request fails with the
\* discovery failure exactly when the tool printed no line at all, whatever its
\* exit status; any printed line sends the output on to the parser.
C11_FailsOnlyOnNoOutput ==
    Invoked =>
        /\ FailedDiscovery <=> Len(traceResult.output) = 0
        /\ Len(traceResult.output) > 0 =>
              \A i \in 1..Len(Written) : IsErrorEnvelope(Written[i]) =>
                                             Written[i].error # DiscoveryFailure

\* a tool that exits with a non-zero status but printed lines: parsed and
\* answered with success
C11_Witness ==
    /\ Succeeded
    /\ traceResult.returnCode = 1
    /\ Len(traceResult.output) > 0

\* a tool that exits with status 0 and printed nothing: the discovery failure
C11_WitnessNoOutput ==
    /\ FailedDiscovery
    /\ pc = "Done"
    /\ traceResult.returnCode = 0

----------------------------------------------------------------------------
(* C12 *)

\* a hop line starts, after blanks, with the hop index; any other non-blank
\* line of the output is a header
IsHopLine(line) ==
    LET i == skip(line, 1, WhiteSpace)
    IN  i <= Len(line) /\ line[i] \in Digit

IsHeaderLine(line) ==
    LET i == skip(line, 1, WhiteSpace)
    IN  i <= Len(line) /\ line[i] \notin Digit

\* the responsive hop lines of the output
ResponsiveHops(output) == {k \in Responsive(output) : IsHopLine(output[k])}

\* C12: every address of the list parseTraceroute returns was extracted from a
\* responsive hop line and the list is ordered by the hop line each address
\* first appears on, so the address a header line prints contributes nothing
\* and never comes ahead of the first hop.
C12_HeaderContributesNothing ==
    JustParsed =>
        LET out == traceResult.output
            first(a) == firstOf({k \in ResponsiveHops(out) : Extracted[out[k]][1] = a})
        IN  /\ {ips[i] : i \in 1..Len(ips)} =
                  {Extracted[out[k]][1] : k \in ResponsiveHops(out)}
            /\ \A i, j \in 1..Len(ips) : i < j => first(ips[i]) < first(ips[j])

----------------------------------------------------------------------------
(* C13 *)

\* a line of blanks, or no character at all
IsBlankLine(line) == \A i \in 1..Len(line) : line[i] \in WhiteSpace

\* "timed out"
TimedOutText == <<"t","i","m","e","d"," ","o","u","t">>

\* the line carries the "timed out" text, in any letter case
HasTimedOutText(line) ==
    \E i \in 1..(Len(line) - Len(TimedOutText) + 1) :
        \A j \in 1..Len(TimedOutText) :
            toLower(line[i + j - 1]) = TimedOutText[j]

\* the hop index followed by asterisks and blanks only
OnlyAsterisks(line) ==
    LET i == skip(line, 1, WhiteSpace)
        e == skip(line, i, Digit)
    IN  /\ e > i
        /\ e <= Len(line)
        /\ \A k \in e..Len(line) : line[k] \in WhiteSpace \cup {"*"}
        /\ \E k \in e..Len(line) : line[k] = "*"

\* the line stands for a hop that did not answer, or is blank
Unresponsive(line) ==
    IsBlankLine(line) \/ HasTimedOutText(line) \/ OnlyAsterisks(line)

UnresponsiveLine ==
    [l \in ParseLines(TRUE) \cup ParseLines(FALSE) |-> Unresponsive(l)]

\* the characters of an address
AddressChars == HexDigit \cup {".", ":"}

\* C13: the list parseTraceroute returns for an output is the list it returns
\* for the same output without its timed-out, asterisk-only and blank lines;
\* every entry of the list is an address, and as soon as one other line yields
\* an address the script goes on to the lookups without writing an error.
C13_UnresponsiveLinesContributeNothing ==
    JustParsed =>
        LET out == traceResult.output
            kept == SelectSeq(out, LAMBDA l : ~UnresponsiveLine[l])
        IN  /\ ips = parseTraceroute(kept, traceResult.isWindows)
            /\ Len(ips) <= Len(kept)
            /\ \A i \in 1..Len(ips) :
                  Len(ips[i]) > 0 /\ \A j \in 1..Len(ips[i]) : ips[i][j] \in AddressChars
            /\ Len(ips) > 0 => pc = "Enriching" /\ Written = <<>>

\* an unresponsive line between two hop lines of different addresses: the two
\* addresses are adjacent in the list
C13_Witness ==
    /\ JustParsed
    /\ pc = "Enriching"
    /\ Len(traceResult.output) = 3
    /\ UnresponsiveLine[traceResult.output[2]]
    /\ ~IsBlankLine(traceResult.output[2])
    /\ ~UnresponsiveLine[traceResult.output[1]]
    /\ ~UnresponsiveLine[traceResult.output[3]]
    /\ Len(ips) = 2

----------------------------------------------------------------------------
(* C14 *)

\* what separates the words of a line
Delimiters == WhiteSpace \cup {"[", "]", "(", ")", ","}

\* where the words of the line start
WordStarts(line) ==
    {i \in 1..Len(line) : line[i] \notin Delimiters /\ (i = 1 \/ line[i - 1] \in Delimiters)}

\* the word of the line that starts at position i
wordAt(line, i) ==
    LET e == firstOf({j \in i..Len(line) : line[j] \in Delimiters})
    IN  SubSeq(line, i, IF e = 0 THEN Len(line) ELSE e - 1)

Count(w, c) == Cardinality({i \in 1..Len(w) : w[i] = c})

\* hextets separated by colons
IsIPv6Literal(w) ==
    /\ \A i \in 1..Len(w) : w[i] \in HexDigit \cup {":"}
    /\ Count(w, ":") >= 2
    /\ w[1] # ":"

\* four groups of one to three digits separated by dots
IsIPv4Literal(w) ==
    /\ \A i \in 1..Len(w) : w[i] \in Digit \cup {"."}
    /\ Count(w, ".") = 3
    /\ w[1] # "." /\ w[Len(w)] # "."
    /\ \A i \in 1..(Len(w) - 1) : ~(w[i] = "." /\ w[i + 1] = ".")
    /\ \A i \in 1..(Len(w) - 3) : \E j \in i..(i + 3) : w[j] = "."

\* the address a line stands for: its first IPv6 literal, or without one its
\* first IPv4 literal, brackets apart
lineLiteral(line) ==
    LET v6 == {i \in WordStarts(line) : IsIPv6Literal(wordAt(line, i))}
        v4 == {i \in WordStarts(line) : IsIPv4Literal(wordAt(line, i))}
    IN  IF v6 # {} THEN <<wordAt(line, firstOf(v6))>>
        ELSE IF v4 # {} THEN <<wordAt(line, firstOf(v4))>>
        ELSE <<>>

\* the address of each line the loop does not skip
Literal ==
    [l \in ParseLines(TRUE) \cup ParseLines(FALSE) |->
        IF skipLine(l) THEN <<>> ELSE lineLiteral(l)]

\* C14: the list parseTraceroute returns holds, once each and in the order of
\* the lines, exactly one address per non-skipped line that carries one: the
\* line's IPv6 literal when it has one, and only otherwise its IPv4 literal
\* without the brackets around it.
C14_IPv6BeforeIPv4 ==
    JustParsed =>
        LET out == traceResult.output
            with == {k \in 1..Len(out) : Literal[out[k]] # <<>>}
            first(a) == firstOf({k \in with : Literal[out[k]][1] = a})
        IN  /\ Len(ips) <= Cardinality(with)
            /\ \A i, j \in 1..Len(ips) : i # j => ips[i] # ips[j]
            /\ {ips[i] : i \in 1..Len(ips)} = {Literal[out[k]][1] : k \in with}
            /\ \A i, j \in 1..Len(ips) : i < j => first(ips[i]) < first(ips[j])

\* a line with an IPv6 and an IPv4 literal, then a line with an IPv4 literal
\* in parentheses: the first gives its IPv6 literal, the second its IPv4 one
C14_Witness ==
    /\ JustParsed
    /\ traceResult.output = <<LineHopBoth, LineHopUnix>>
    /\ Len(ips) = 2
    /\ Count(ips[1], ":") > 0 /\ Count(ips[1], ".") = 0
    /\ Count(ips[2], ".") = 3

----------------------------------------------------------------------------
(* C15 *)

\* C15: in every success envelope the hops list is as long as the address list
\* of the parser and its i-th hop has the i-th address as its ip, whatever the
\* lookups returned.
C15_HopsKeepAddressSequence ==
    \A e \in 1..Len(Written) :
        IsSuccessEnvelope(Written[e]) =>
            /\ Len(Written[e].hops) = Len(ips)
            /\ \A i \in 1..Len(ips) : Written[e].hops[i]["ip"] = JStr(ips[i])

----------------------------------------------------------------------------
(* C16 *)

\* visualizeRoute and displayHopDetails have run on currentTraceData, and the
\* panel they opened is still open
Visualized == handler = "Idle" /\ ~dom.detailsHidden

\* the hops of a list that have a latitude and a longitude, 0 included
Located(hopList) ==
    {i \in 1..Len(hopList) : hopList[i].lat # JNull /\ hopList[i].lon # JNull}

\* C16: after visualizeRoute ran on a trace result the map holds one marker
\* for each hop that has a latitude and a longitude, the value 0 included, and
\* no other marker; each marker is at its hop's coordinates and labelled with
\* its hop's own number.
C16_OneMarkerPerLocatedHop ==
    Visualized =>
        LET hopList == currentTraceData.hops
        IN  /\ Len(markers) = Cardinality(Located(hopList))
            /\ \A i \in Located(hopList) :
                  Cardinality({m \in 1..Len(markers) :
                                  /\ markers[m].label = hopList[i].hop
                                  /\ markers[m].lat = hopList[i].lat
                                  /\ markers[m].lon = hopList[i].lon}) = 1
            /\ \A m \in 1..Len(markers) :
                  \E i \in Located(hopList) : markers[m].label = hopList[i].hop

----------------------------------------------------------------------------
(* C17 *)

\* a request has been sent and handleTraceSubmit waits for it
InFlight == handler \in {"AwaitFetch", "AwaitJson"}

\* the loading indicator is off: interval cleared, indicator hidden, button
\* enabled
LoadingOff == ~progressInterval /\ dom.loadingHidden /\ ~dom.btnDisabled

\* what holds in every state: at most 99% while in flight, with the indicator
\* on; 100% only when no request is in flight; the indicator off when idle
ProgressStates ==
    /\ InFlight => /\ dom.percent <= 99
                   /\ progress <= 990
                   /\ progressInterval /\ ~dom.loadingHidden /\ dom.btnDisabled
    /\ dom.percent = 100 => handler = "Idle" /\ LoadingOff
    /\ handler = "Idle" => LoadingOff

\* what holds of every step: the percentage does not go down during a flight,
\* and the step that ends a flight leaves the indicator off and 100% shown
ProgressSteps ==
    /\ (InFlight /\ InFlight') => /\ dom.percent' >= dom.percent
                                  /\ progress' >= progress
    /\ (InFlight /\ ~InFlight') => /\ LoadingOff'
                                   /\ dom.percent' = 100

\* C17: while a request is in flight the displayed percentage never goes down
\* and never exceeds 99; 100% is displayed only once the request is over; and
\* after every outcome (success, HTTP error, API error envelope, thrown fault)
\* the interval is cleared, the indicator hidden and the button enabled.
C17_ProgressBelowHundredUntilDone == []ProgressStates /\ [][ProgressSteps]_vars

\* a request that ran long enough for the last message of the simulation and
\* then ended with an HTTP error: 100% shown, the indicator off
C17_Witness ==
    /\ handler = "Idle"
    /\ dom.notice = FailurePrefix \o "HTTP error! status: 500"
    /\ dom.message = "Finalizing..."
    /\ dom.percent = 100
    /\ LoadingOff

\* a flight during which the simulation has come to rest
C17_Stalled ==
    /\ InFlight
    /\ progress >= 950
    /\ dom.percent = 95

====
